---- MODULE Spec2Model ----
(***************************************************************************)
(* Model of the recursive-descent matching engine of src/main.cpp.         *)
(*                                                                         *)
(* A grammar is a class type; here it is a record naming the class         *)
(* template and its template arguments.  Characters are their ASCII codes. *)
(* The text is a std::string_view: `size` characters at the start of a     *)
(* mapped buffer `mem`.  operator[] does no bounds check, so a read at an  *)
(* index >= size returns whatever byte lies in the buffer behind the view, *)
(* and a read beyond the mapped buffer faults.  The bytes behind the view  *)
(* and the length of the mapped buffer are chosen nondeterministically.    *)
(***************************************************************************)
EXTENDS Integers, Sequences, FiniteSets, TLC

VARIABLES mem,      \* the mapped bytes starting at context.data()
          size,     \* context.size()
          g,        \* the grammar type whose topdown_match is called
          index,    \* the index argument of the call
          result,   \* the outcome of the call
          pc,       \* position of the caller
          count,    \* Plus/Asterisk::topdown_match: local count
          flag,     \* Plus::topdown_match: local flag
          current,  \* Plus/Asterisk::topdown_match: local current
          temps,    \* number of Clause() temporaries constructed so far
          callee,   \* the object topdown_match was last invoked on
          guard,    \* per type: state of the guard of `static Type _STATIC`
          built,    \* per type: number of times _STATIC was constructed
          obj,      \* per type: construction state of _STATIC
          tpc,      \* per thread: position inside instance()
          tty,      \* per thread: the type whose instance() it is calling
          ret,      \* per thread: sequence of the pointers instance() returned
          out       \* what main printed

vars == <<mem, size, g, index, result, pc, count, flag, current, temps,
          callee, guard, built, obj, tpc, tty, ret, out>>

(***************************************************************************)
(* Bounds                                                                  *)
(***************************************************************************)
MaxMem == 3
MainPad == 3
MaxCalls == 2

(***************************************************************************)
(* Outcomes: std::optional<size_t> is nullopt or a consumed length k >= 0. *)
(* Fault: the call read unmapped memory, the process is killed.            *)
(* Diverge: the call never returns.                                        *)
(***************************************************************************)
nullopt == -1
Fault == -2
Diverge == -3

IsMatched(r) == r >= 0
Returns(r) == r >= -1

(***************************************************************************)
(* Grammar types                                                           *)
(***************************************************************************)
Node(k, c, t, subs, name) == [k |-> k, c |-> c, t |-> t, subs |-> subs, name |-> name]

Start == Node("Start", 0, 0, <<>>, "")
End == Node("End", 0, 0, <<>>, "")
Char(C) == Node("Char", C, 0, <<>>, "")
CharRange(S, T) == Node("CharRange", S, T, <<>>, "")
Plus(Clause) == Node("Plus", 0, 0, <<Clause>>, "")
Asterisk(Clause) == Node("Asterisk", 0, 0, <<Clause>>, "")
SeqG(Clauses) == Node("Seq", 0, 0, Clauses, "")
Ord(Clauses) == Node("Ord", 0, 0, Clauses, "")
Clause(Name) == Node("CLAUSE", 0, 0, <<>>, Name)

\* the base class each CLAUSE(Name, ...) inherits topdown_match from
Base(Name) ==
  CASE Name = "Digit" -> CharRange(48, 57)
    [] Name = "Number" -> Plus(Clause("Digit"))
    [] Name = "Additive" ->
         Ord(<<SeqG(<<Clause("Multicative"), Char(43), Clause("Additive")>>),
               Clause("Multicative")>>)
    [] Name = "Multicative" ->
         Ord(<<SeqG(<<Clause("Primary"), Char(42), Clause("Multicative")>>),
               Clause("Primary")>>)
    [] Name = "Primary" ->
         Ord(<<SeqG(<<Char(40), Clause("Additive"), Char(41)>>),
               Clause("Number")>>)
    [] Name = "Toplevel" ->
         SeqG(<<Start, Clause("Additive"), End>>)

(***************************************************************************)
(* context[index]: no bounds check against size                            *)
(***************************************************************************)
At(i) == IF i < Len(mem) THEN mem[i + 1] ELSE Fault

RECURSIVE topdown_match(_, _)
RECURSIVE Plus_while(_, _, _, _, _)
RECURSIVE Asterisk_while(_, _, _, _)
RECURSIVE Seq_topdown_match(_, _)
RECURSIVE Ord_topdown_match(_, _)

Start_topdown_match(i) == IF i = 0 THEN 0 ELSE nullopt

\* variant: End requires index > size
End_topdown_match_Strict(i) == IF i > size THEN 0 ELSE nullopt

End_topdown_match(i) == IF i >= size THEN 0 ELSE nullopt

Char_topdown_match(C, i) ==
  IF At(i) = Fault THEN Fault
  ELSE IF At(i) = C THEN 1 ELSE nullopt

CharRange_topdown_match(S, T, i) ==
  IF At(i) = Fault THEN Fault
  ELSE IF At(i) >= S /\ At(i) <= T THEN 1 ELSE nullopt

\* the while loop of Plus: cur is the value of `current` at the loop test.
\* An iteration with *current = 0 leaves index + count unchanged, so the
\* same call is repeated with the same outcome for ever.
Plus_while(Cl, i, cnt, flg, cur) ==
  IF cur = Fault \/ cur = Diverge THEN cur
  ELSE IF cur = nullopt THEN (IF flg THEN cnt ELSE nullopt)
  ELSE IF cur = 0 THEN Diverge
  ELSE Plus_while(Cl, i, cnt + cur, TRUE, topdown_match(Cl, i + cnt + cur))

\* variant: the flag is not consulted
Plus_topdown_match_NoFlag(Cl, i) ==
  Asterisk_while(Cl, i, 0, topdown_match(Cl, i + 0))

Plus_topdown_match(Cl, i) ==
  Plus_while(Cl, i, 0, FALSE, topdown_match(Cl, i + 0))

Asterisk_while(Cl, i, cnt, cur) ==
  IF cur = Fault \/ cur = Diverge THEN cur
  ELSE IF cur = nullopt THEN cnt
  ELSE IF cur = 0 THEN Diverge
  ELSE Asterisk_while(Cl, i, cnt + cur, topdown_match(Cl, i + cnt + cur))

\* variant: fails when no iteration matched
Asterisk_topdown_match_Flagged(Cl, i) ==
  Plus_while(Cl, i, 0, FALSE, topdown_match(Cl, i + 0))

Asterisk_topdown_match(Cl, i) ==
  Asterisk_while(Cl, i, 0, topdown_match(Cl, i + 0))

\* variant: the length consumed by the first child is not added
Seq_topdown_match_DropFst(Cls, i) ==
  IF Len(Cls) = 1 THEN topdown_match(Cls[1], i)
  ELSE LET fst == topdown_match(Cls[1], i) IN
       IF fst = Fault \/ fst = Diverge THEN fst
       ELSE IF fst # nullopt
       THEN LET snd == Seq_topdown_match(Tail(Cls), i + fst) IN
            IF snd = Fault \/ snd = Diverge THEN snd
            ELSE IF snd # nullopt THEN snd ELSE nullopt
       ELSE nullopt

\* variant: the length consumed before a failing child is reported
Seq_topdown_match_Partial(Cls, i) ==
  IF Len(Cls) = 1 THEN topdown_match(Cls[1], i)
  ELSE LET fst == topdown_match(Cls[1], i) IN
       IF fst = Fault \/ fst = Diverge THEN fst
       ELSE IF fst # nullopt
       THEN LET snd == Seq_topdown_match(Tail(Cls), i + fst) IN
            IF snd = Fault \/ snd = Diverge THEN snd
            ELSE IF snd # nullopt THEN fst + snd ELSE fst
       ELSE nullopt

Seq_topdown_match(Cls, i) ==
  IF Len(Cls) = 1 THEN topdown_match(Cls[1], i)
  ELSE LET fst == topdown_match(Cls[1], i) IN
       IF fst = Fault \/ fst = Diverge THEN fst
       ELSE IF fst # nullopt
       THEN LET snd == Seq_topdown_match(Tail(Cls), i + fst) IN
            IF snd = Fault \/ snd = Diverge THEN snd
            ELSE IF snd # nullopt THEN fst + snd ELSE nullopt
       ELSE nullopt

\* variant: a later alternative that succeeds is preferred
Ord_topdown_match_LastWins(Cls, i) ==
  IF Len(Cls) = 1 THEN topdown_match(Cls[1], i)
  ELSE LET rest == Ord_topdown_match(Tail(Cls), i) IN
       IF IsMatched(rest) THEN rest ELSE topdown_match(Cls[1], i)

Ord_topdown_match(Cls, i) ==
  IF Len(Cls) = 1 THEN topdown_match(Cls[1], i)
  ELSE LET fst == topdown_match(Cls[1], i) IN
       IF fst = Fault \/ fst = Diverge THEN fst
       ELSE IF fst # nullopt THEN fst
       ELSE Ord_topdown_match(Tail(Cls), i)

\* virtual dispatch on the class of the object
topdown_match(G, i) ==
  CASE G.k = "Start" -> Start_topdown_match(i)
    [] G.k = "End" -> End_topdown_match(i)
    [] G.k = "Char" -> Char_topdown_match(G.c, i)
    [] G.k = "CharRange" -> CharRange_topdown_match(G.c, G.t, i)
    [] G.k = "Plus" -> Plus_topdown_match(G.subs[1], i)
    [] G.k = "Asterisk" -> Asterisk_topdown_match(G.subs[1], i)
    [] G.k = "Seq" -> Seq_topdown_match(G.subs, i)
    [] G.k = "Ord" -> Ord_topdown_match(G.subs, i)
    [] G.k = "CLAUSE" -> topdown_match(Base(G.name), i)

(***************************************************************************)
(* The inputs the calls are checked on                                     *)
(***************************************************************************)
Chars == {43, 49, 57}

Buffers == UNION {[1..n -> Chars] : n \in 0..MaxMem}

Leaves == {Start, End, Char(43), Char(49), CharRange(48, 57), CharRange(49, 56)}

Subs == Leaves \cup {Plus(CharRange(48, 57)), Asterisk(Char(43)),
                     Ord(<<Char(49), Plus(CharRange(48, 57))>>)}

Grammars ==
  Subs
  \cup {Plus(a) : a \in Subs} \cup {Asterisk(a) : a \in Subs}
  \cup {SeqG(<<a>>) : a \in Subs} \cup {Ord(<<a>>) : a \in Subs}
  \cup {SeqG(<<a, b>>) : a \in Subs, b \in Subs}
  \cup {Ord(<<a, b>>) : a \in Subs, b \in Subs}
  \cup {SeqG(<<a, b, c>>) : a \in Leaves, b \in Subs, c \in Leaves}
  \cup {Ord(<<a, b, c>>) : a \in Leaves, b \in Subs, c \in Leaves}

Types == {"Digit", "Number", "Toplevel"}
Threads == {1, 2}

\* values of the variables a specification does not use
NoLoop == count = 0 /\ flag = FALSE /\ current = nullopt
NoInst ==
  /\ guard = [ty \in Types |-> "uninit"]
  /\ built = [ty \in Types |-> 0]
  /\ obj = [ty \in Types |-> "none"]
  /\ tpc = [t \in Threads |-> "idle"]
  /\ tty = [t \in Threads |-> "Digit"]
  /\ ret = [t \in Threads |-> <<>>]
NoTemps == temps = 0 /\ callee = <<"none", 0>>

(***************************************************************************)
(* One call g().topdown_match(context, index)                              *)
(***************************************************************************)
Init ==
  /\ mem \in Buffers
  /\ size \in 0..Len(mem)
  /\ g \in Grammars
  /\ index \in 0..(Len(mem) + 1)
  /\ result = nullopt
  /\ pc = "call"
  /\ out = -1
  /\ NoLoop /\ NoInst /\ NoTemps

Match ==
  /\ pc = "call"
  /\ result' = topdown_match(g, index)
  /\ pc' = "done"
  /\ UNCHANGED <<mem, size, g, index, count, flag, current, temps, callee,
                 guard, built, obj, tpc, tty, ret, out>>

Next == Match

Spec == Init /\ [][Next]_vars

(***************************************************************************)
(* Properties of one call                                                  *)
(***************************************************************************)
IsLeafChar(G) == G.k \in {"Char", "CharRange"}

\* C2: at an offset >= length(text), Literal(c) and Range(lo, hi) return
\* NoMatch without reading outside the text (a read outside the text either
\* faults or yields a byte that decides the outcome), also when the leaf is
\* the body of a OneOrMore (NoMatch) or ZeroOrMore (Matched(0)).
C2_PastEndIsNoMatch ==
  (pc = "done" /\ index >= size) =>
    /\ IsLeafChar(g) => result = nullopt
    /\ (g.k = "Plus" /\ IsLeafChar(g.subs[1])) => result = nullopt
    /\ (g.k = "Asterisk" /\ IsLeafChar(g.subs[1])) => result = 0

\* C3: a successful match never extends past the end of the text:
\* Matched(k) at offset i implies i + k <= length(text), zero-length
\* successes excepted.
C3_ConsumedWithinText ==
  (pc = "done" /\ IsMatched(result)) => (index + result <= size \/ result = 0)

\* the offsets 0..n of a chain of n consecutive successful applications of
\* sub starting at i, the application at the last offset failing
IsChain(sub, i, n, o) ==
  /\ o[0] = i
  /\ \A j \in 0..(n - 1) :
       /\ IsMatched(topdown_match(sub, o[j]))
       /\ o[j + 1] = o[j] + topdown_match(sub, o[j])
  /\ topdown_match(sub, o[n]) = nullopt

\* C4: when the loop finishes, OneOrMore(sub) is NoMatch iff sub is NoMatch
\* at the starting offset, and otherwise Matched(total), total being the sum
\* of the lengths of the consecutive successful applications of sub, each
\* at offset + running total, up to the first failure.
C4_OneOrMore ==
  (pc = "done" /\ g.k = "Plus" /\ Returns(result)) =>
    /\ result = nullopt <=> topdown_match(g.subs[1], index) = nullopt
    /\ result # nullopt =>
         \E n \in 1..(Len(mem) + 1) :
           \E o \in [0..n -> 0..(Len(mem) + 1)] :
             IsChain(g.subs[1], index, n, o) /\ result = o[n] - index

C4_Witness ==
  /\ pc = "done" /\ g.k = "Plus" /\ result >= 2
  /\ g.subs[1].k = "Ord" /\ index + result = size

\* C5: ZeroOrMore(sub) never returns NoMatch, at any offset; what it returns
\* is Matched(total), with total = 0 when sub fails at the starting offset.
C5_ZeroOrMoreNeverFails ==
  (pc = "done" /\ g.k = "Asterisk") =>
    /\ result # nullopt
    /\ Returns(result) => IsMatched(result)
    /\ topdown_match(g.subs[1], index) = nullopt => result = 0

C5_Witness ==
  /\ pc = "done" /\ g.k = "Asterisk" /\ index >= size /\ result = 0
  /\ topdown_match(g.subs[1], index) = nullopt

\* C6: Ord returns exactly the outcome of the first alternative that
\* succeeds, whatever later alternatives would do; it is NoMatch only when
\* every alternative is NoMatch; with one alternative it is that
\* alternative's outcome.
C6_OrderedChoice ==
  (pc = "done" /\ g.k = "Ord") =>
    LET n == Len(g.subs)
        r(j) == topdown_match(g.subs[j], index)
    IN /\ \A j \in 1..n :
            (IsMatched(r(j)) /\ \A k \in 1..(j - 1) : r(k) = nullopt)
              => result = r(j)
       /\ result = nullopt <=> \A j \in 1..n : r(j) = nullopt
       /\ n = 1 => result = r(1)

\* a first alternative that succeeds while a later one would consume more
C6_Witness ==
  /\ pc = "done" /\ g.k = "Ord" /\ Len(g.subs) >= 2
  /\ IsMatched(result)
  /\ topdown_match(g.subs[1], index) = result
  /\ topdown_match(g.subs[2], index) > result

\* C7: Seq(Seq(a, b), c), Seq(a, Seq(b, c)) and Seq(a, b, c) have the same
\* outcome: the same success or NoMatch and the same consumed length.
C7_SeqAssociative ==
  (pc = "done" /\ g.k = "Seq" /\ Len(g.subs) = 3) =>
    LET a == g.subs[1]
        b == g.subs[2]
        c == g.subs[3]
    IN /\ topdown_match(SeqG(<<SeqG(<<a, b>>), c>>), index) = result
       /\ topdown_match(SeqG(<<a, SeqG(<<b, c>>)>>), index) = result

C7_Witness ==
  /\ pc = "done" /\ g.k = "Seq" /\ Len(g.subs) = 3 /\ result = 3
  /\ topdown_match(SeqG(<<g.subs[1], SeqG(<<g.subs[2], g.subs[3]>>)>>), index) = 3

\* the offset child j of a Seq is applied at: i plus the lengths consumed by
\* the children before it; nullopt when one of them did not succeed
RECURSIVE OffsetOf(_, _, _)
OffsetOf(Cls, i, j) ==
  IF j = 1 THEN i
  ELSE LET before == OffsetOf(Cls, i, j - 1) IN
       IF before = nullopt THEN nullopt
       ELSE IF IsMatched(topdown_match(Cls[j - 1], before))
            THEN before + topdown_match(Cls[j - 1], before)
            ELSE nullopt

\* C9: Seq applies each child at offset plus the lengths consumed so far; it
\* is NoMatch as soon as a child is NoMatch, whatever the later children
\* would do and whatever was consumed before; otherwise it is Matched(sum of
\* the children's lengths); with one child it is that child's outcome.
C9_Sequence ==
  (pc = "done" /\ g.k = "Seq") =>
    LET n == Len(g.subs)
        off(j) == OffsetOf(g.subs, index, j)
    IN /\ (\E j \in 1..n : /\ off(j) # nullopt
                           /\ topdown_match(g.subs[j], off(j)) = nullopt)
            => result = nullopt
       /\ (/\ off(n) # nullopt
           /\ IsMatched(topdown_match(g.subs[n], off(n))))
            => result = off(n) + topdown_match(g.subs[n], off(n)) - index
       /\ n = 1 => result = topdown_match(g.subs[1], index)

\* a second child fails after the first consumed input
C9_Witness ==
  /\ pc = "done" /\ g.k = "Seq" /\ Len(g.subs) = 3 /\ result = nullopt
  /\ topdown_match(g.subs[1], index) = 1
  /\ topdown_match(g.subs[2], index + 1) = nullopt

(***************************************************************************)
(* main: Toplevel().topdown_match("(1+1)+1*(5+5)", 0).value_or(0)          *)
(* The string_view is built from a string literal: the literal's           *)
(* terminating NUL follows the 13 characters of the view; what follows the *)
(* NUL is arbitrary.                                                       *)
(***************************************************************************)
MainText == <<40, 49, 43, 49, 41, 43, 49, 42, 40, 53, 43, 53, 41>>

MainChars == {0, 41, 43, 49}

InitMain ==
  /\ \E pad \in [1..MainPad -> MainChars] : mem = MainText \o <<0>> \o pad
  /\ size = Len(MainText)
  /\ g = Clause("Toplevel")
  /\ index = 0
  /\ result = nullopt
  /\ pc = "call"
  /\ out = -1
  /\ NoLoop /\ NoInst /\ NoTemps

\* Toplevel() is a temporary; topdown_match is invoked on it
MainMatch ==
  /\ pc = "call"
  /\ temps' = temps + 1
  /\ callee' = <<"temp", temps + 1>>
  /\ result' = topdown_match(g, index)
  /\ pc' = IF Returns(topdown_match(g, index)) THEN "matched" ELSE "fault"
  /\ UNCHANGED <<mem, size, g, index, count, flag, current,
                 guard, built, obj, tpc, tty, ret, out>>

\* std::cout << (...).value_or(0)
MainPrint ==
  /\ pc = "matched"
  /\ out' = IF IsMatched(result) THEN result ELSE 0
  /\ pc' = "done"
  /\ UNCHANGED <<mem, size, g, index, result, count, flag, current, temps,
                 callee, guard, built, obj, tpc, tty, ret>>

NextMain == MainMatch \/ MainPrint

SpecMain == InitMain /\ [][NextMain]_vars

\* C1: matching Toplevel at offset 0 against "(1+1)+1*(5+5)" returns
\* Matched(13), the length of the text.
C1_MainMatches13 ==
  /\ pc # "fault"
  /\ pc \in {"matched", "done"} => result = 13 /\ result = size
  /\ pc = "done" => out = 13

C1_Witness == pc = "done" /\ g = Clause("Toplevel") /\ result = 13 /\ out = 13

(***************************************************************************)
(* Plus/Asterisk::topdown_match statement by statement; a call of the      *)
(* sub-grammar is one step.                                                *)
(***************************************************************************)
InitLoop ==
  /\ mem \in Buffers
  /\ size \in 0..Len(mem)
  /\ g \in {Plus(a) : a \in Subs} \cup {Asterisk(a) : a \in Subs}
  /\ index \in 0..(Len(mem) + 1)
  /\ result = nullopt
  /\ pc = "call"
  /\ out = -1
  /\ NoLoop /\ NoInst /\ NoTemps

\* where the caller is after a call of the sub-grammar with outcome r
AfterCall(r) ==
  IF r = Fault THEN "fault" ELSE IF r = Diverge THEN "hung" ELSE "while"

\* size_t count = 0; bool flag = false;
\* auto current = Clause().topdown_match(context, index + count);
LoopEnter ==
  /\ pc = "call"
  /\ count' = 0
  /\ flag' = FALSE
  /\ current' = topdown_match(g.subs[1], index + 0)
  /\ pc' = AfterCall(topdown_match(g.subs[1], index + 0))
  /\ UNCHANGED <<mem, size, g, index, result, temps, callee, guard, built,
                 obj, tpc, tty, ret, out>>

\* variant: the body does not add *current to count
LoopBody_NoAdvance ==
  /\ pc = "while"
  /\ current # nullopt
  /\ flag' = (IF g.k = "Plus" THEN TRUE ELSE flag)
  /\ count' = count
  /\ current' = topdown_match(g.subs[1], index + count)
  /\ pc' = AfterCall(topdown_match(g.subs[1], index + count))
  /\ UNCHANGED <<mem, size, g, index, result, temps, callee, guard, built,
                 obj, tpc, tty, ret, out>>

\* while (current) { flag = true; count += *current;
\*                   current = Clause().topdown_match(context, index + count); }
LoopBody ==
  /\ pc = "while"
  /\ current # nullopt
  /\ flag' = (IF g.k = "Plus" THEN TRUE ELSE flag)
  /\ count' = count + current
  /\ current' = topdown_match(g.subs[1], index + count + current)
  /\ pc' = AfterCall(topdown_match(g.subs[1], index + count + current))
  /\ UNCHANGED <<mem, size, g, index, result, temps, callee, guard, built,
                 obj, tpc, tty, ret, out>>

\* Plus: return flag ? make_optional(count) : nullopt;
\* Asterisk: return make_optional(count);
LoopReturn ==
  /\ pc = "while"
  /\ current = nullopt
  /\ result' = IF g.k = "Plus" /\ ~flag THEN nullopt ELSE count
  /\ pc' = "done"
  /\ UNCHANGED <<mem, size, g, index, count, flag, current, temps, callee,
                 guard, built, obj, tpc, tty, ret, out>>

NextLoop == LoopEnter \/ LoopBody \/ LoopReturn

\* the thread running the loop keeps running
SpecLoop == InitLoop /\ [][NextLoop]_vars /\ WF_vars(NextLoop)

\* the loop is over: it returned, or the process was killed by a read of
\* unmapped memory
Halted == pc \in {"done", "fault"}

\* the sub-grammar succeeded consuming 0
ZeroProgress == pc = "while" /\ current = 0

\* C10: the loop of OneOrMore(sub) / ZeroOrMore(sub) eventually stops unless
\* sub succeeds consuming 0: a run in which no application of sub succeeds
\* with length 0 reaches the end of the loop.
C10_LoopTerminates == <>(Halted \/ ZeroProgress)

\* a loop over a sub-grammar consuming >= 1 that iterated and returned
C10_Witness ==
  /\ pc = "done" /\ count >= 2 /\ result = count
  /\ g.subs[1].k \in {"Char", "CharRange"}

\* the statement-level loop computes what the operator computes
LoopAgreesWithOperator ==
  /\ pc = "done" => result = topdown_match(g, index)
  /\ pc = "fault" => topdown_match(g, index) = Fault
  /\ ZeroProgress => topdown_match(g, index) = Diverge

(***************************************************************************)
(* GRAMMAR_INSTANCE: Grammar* instance() const {                           *)
(*   static Type _STATIC; return &_STATIC; }                               *)
(* called by several threads.  A block-scope static is initialised the     *)
(* first time control passes through its declaration; a thread reaching    *)
(* the declaration while another one initialises it waits.                 *)
(* Matching never calls instance(): every application of a grammar is      *)
(* Clause().topdown_match(...), on a temporary.                            *)
(***************************************************************************)
InitInst ==
  /\ mem = <<>> /\ size = 0 /\ g = Start /\ index = 0
  /\ result = nullopt /\ pc = "call" /\ out = -1
  /\ NoLoop /\ NoInst /\ NoTemps

\* a thread calls Type().instance()
InstCall(t, ty) ==
  /\ tpc[t] = "idle"
  /\ Len(ret[t]) < MaxCalls
  /\ tpc' = [tpc EXCEPT ![t] = "guard"]
  /\ tty' = [tty EXCEPT ![t] = ty]
  /\ UNCHANGED <<mem, size, g, index, result, pc, count, flag, current,
                 temps, callee, guard, built, obj, ret, out>>

\* variant: the declaration is not guarded against a concurrent
\* initialisation
GuardAcquire_NoLock(t) ==
  /\ tpc[t] = "guard"
  /\ IF guard[tty[t]] = "done"
     THEN tpc' = [tpc EXCEPT ![t] = "return"] /\ guard' = guard
     ELSE /\ guard' = [guard EXCEPT ![tty[t]] = "busy"]
          /\ tpc' = [tpc EXCEPT ![t] = "construct"]
  /\ UNCHANGED <<mem, size, g, index, result, pc, count, flag, current,
                 temps, callee, built, obj, tty, ret, out>>

\* control passes through `static Type _STATIC;`
GuardAcquire(t) ==
  /\ tpc[t] = "guard"
  /\ guard[tty[t]] # "busy"
  /\ IF guard[tty[t]] = "done"
     THEN tpc' = [tpc EXCEPT ![t] = "return"] /\ guard' = guard
     ELSE /\ guard' = [guard EXCEPT ![tty[t]] = "busy"]
          /\ tpc' = [tpc EXCEPT ![t] = "construct"]
  /\ UNCHANGED <<mem, size, g, index, result, pc, count, flag, current,
                 temps, callee, built, obj, tty, ret, out>>

\* the constructor of _STATIC starts
ConstructBegin(t) ==
  /\ tpc[t] = "construct"
  /\ obj' = [obj EXCEPT ![tty[t]] = "partial"]
  /\ built' = [built EXCEPT ![tty[t]] = @ + 1]
  /\ tpc' = [tpc EXCEPT ![t] = "constructing"]
  /\ UNCHANGED <<mem, size, g, index, result, pc, count, flag, current,
                 temps, callee, guard, tty, ret, out>>

\* the constructor of _STATIC ends and the initialisation is published
ConstructEnd(t) ==
  /\ tpc[t] = "constructing"
  /\ obj' = [obj EXCEPT ![tty[t]] = "complete"]
  /\ guard' = [guard EXCEPT ![tty[t]] = "done"]
  /\ tpc' = [tpc EXCEPT ![t] = "return"]
  /\ UNCHANGED <<mem, size, g, index, result, pc, count, flag, current,
                 temps, callee, built, tty, ret, out>>

\* return &_STATIC; the caller sees the object in its current state
InstReturn(t) ==
  /\ tpc[t] = "return"
  /\ ret' = [ret EXCEPT ![t] = Append(@, <<"static", tty[t], obj[tty[t]]>>)]
  /\ tpc' = [tpc EXCEPT ![t] = "idle"]
  /\ UNCHANGED <<mem, size, g, index, result, pc, count, flag, current,
                 temps, callee, guard, built, obj, tty, out>>

\* a match invocation: Clause().topdown_match(context, index)
InvokeMatch(t) ==
  /\ tpc[t] = "idle"
  /\ temps < MaxCalls
  /\ temps' = temps + 1
  /\ callee' = <<"temp", temps + 1>>
  /\ UNCHANGED <<mem, size, g, index, result, pc, count, flag, current,
                 guard, built, obj, tpc, tty, ret, out>>

NextInst ==
  \E t \in Threads :
    \/ \E ty \in Types : InstCall(t, ty)
    \/ GuardAcquire(t)
    \/ ConstructBegin(t)
    \/ ConstructEnd(t)
    \/ InstReturn(t)
    \/ InvokeMatch(t)

SpecInst == InitInst /\ [][NextInst]_vars

\* each type's _STATIC is constructed at most once, every instance() call of
\* a type returns the same pointer, and the object a caller receives is
\* completely constructed
InstanceOnce ==
  /\ \A ty \in Types : built[ty] <= 1
  /\ \A t \in Threads : \A u \in Threads :
       \A i \in 1..Len(ret[t]) : \A j \in 1..Len(ret[u]) :
         ret[t][i][2] = ret[u][j][2] => ret[t][i][1] = ret[u][j][1]
  /\ \A t \in Threads : \A i \in 1..Len(ret[t]) : ret[t][i][3] = "complete"

====
